---- MODULE Spec2Model ----
(***************************************************************************)
(* Session / settings state machine and generation-request lifecycle of    *)
(* the Chatalia chat client (src/src/App.tsx).                             *)
(*                                                                         *)
(* One action is one browser task: the event handler (or the timer that    *)
(* resolves the simulated backend call) together with the promise          *)
(* continuations it makes runnable and the render that follows.  A handler *)
(* therefore reads the state of the last render, except where a            *)
(* useCallback dependency list keeps an older closure alive (handleNewChat *)
(* and the onConfirm closure of handleDeleteChat); those captured values   *)
(* are state variables of the model.                                       *)
(***************************************************************************)
EXTENDS Integers, Sequences, FiniteSets, TLC

\* ------------------------------------------------------------------ bounds
MaxSessions == 2
MaxMessages == 3
MaxCalls == 2
MaxEdits == 1
MaxProviders == 2
MaxTests == 2

\* --------------------------------------------------------------- constants
None == 0

NewChatTitle == <<"N", "e", "w", " ", "C", "h", "a", "t">>
UntitledTitle == <<"U", "n", "t", "i", "t", "l", "e", "d", " ", "C", "h", "a", "t">>
ChatTitle == <<"C", "h", "a", "t">>
Ellipsis == <<".", ".", ".">>
TitleWords == 5
TitleThreshold == 35
TitleCut == 32

StoppedText == <<"Generation stopped.">>
RegeneratingText == <<"Regenerating response...">>

\* text the user can type (already trimmed by the caller where the code trims)
Prompts == {<<"a", " ", "b", " ">>}
EditInputs == {<<"a", " ", "b">>, <<"c", " ">>, <<" ">>}
RenameInputs == {<<"T">>, <<"c", " ">>}

\* MODEL_PROVIDERS, restricted to one model per provider
ModelTable ==
  [m \in {"gpt-4o-mini", "claude-3-opus-20240229"} |->
     IF m = "gpt-4o-mini" THEN "OpenAI" ELSE "Anthropic"]

DEFAULT_MODEL_ID == "gpt-4o-mini"
DEFAULT_CHAT_SETTINGS == [model |-> DEFAULT_MODEL_ID, temperature |-> 7]
DEFAULT_APP_SETTINGS ==
  [defaultChatSettings |-> DEFAULT_CHAT_SETTINGS, apiProviders |-> <<>>]

\* chat settings a dialog can produce (temperature in tenths)
SettingsChoices ==
  {DEFAULT_CHAT_SETTINGS,
   [model |-> "claude-3-opus-20240229", temperature |-> 7],
   [model |-> DEFAULT_MODEL_ID, temperature |-> 2]}

\* credential lists the settings file or the settings dialog can hold
OpenAiOnly == <<[providerId |-> "openai", apiKey |-> "k1"]>>
KeylessOpenAi ==
  <<[providerId |-> "openai", apiKey |-> ""],
    [providerId |-> "anthropic", apiKey |-> "k3"]>>

\* what load_app_settings returns at startup once setup has stored a
\* provider: the shipped defaults, or defaults the user has changed
StoredAppSettings ==
  {[defaultChatSettings |-> DEFAULT_CHAT_SETTINGS, apiProviders |-> OpenAiOnly],
   [defaultChatSettings |-> [model |-> "claude-3-opus-20240229", temperature |-> 7],
    apiProviders |-> OpenAiOnly]}

\* what SettingsModal.handleSaveChanges can hand to handleAppSettingsChange
AppSettingsChoices ==
  {[defaultChatSettings |-> [model |-> "claude-3-opus-20240229", temperature |-> 7],
    apiProviders |-> OpenAiOnly],
   [defaultChatSettings |-> DEFAULT_CHAT_SETTINGS, apiProviders |-> KeylessOpenAi]}

\* the outcomes of the Math.random() draw of simulateAIResponse line 80
Variations == {FALSE}

\* ----------------------------------------------------------------- helpers
Lower(name) ==
  IF name = "OpenAI" THEN "openai"
  ELSE IF name = "Anthropic" THEN "anthropic" ELSE name

getProviderForKey(providerName) == Lower(providerName)

\* undefined is modelled by the empty string
getProviderIdFromModel(modelId) ==
  IF modelId \in DOMAIN ModelTable
    THEN getProviderForKey(Lower(ModelTable[modelId]))
    ELSE ""

\* Array.prototype.find: the first element that satisfies the test, as a
\* sequence of length 0 (undefined) or 1
Find(seq, Test(_)) ==
  LET hits == {i \in 1..Len(seq) : Test(seq[i])}
  IN IF hits = {} THEN <<>>
     ELSE <<seq[CHOOSE i \in hits : \A j \in hits : i <= j]>>

Range(seq) == {seq[i] : i \in 1..Len(seq)}

\* String.prototype.trim on a sequence of characters
RECURSIVE TrimLeft(_)
TrimLeft(s) ==
  IF s # <<>> /\ Head(s) = " " THEN TrimLeft(Tail(s)) ELSE s

RECURSIVE TrimRight(_)
TrimRight(s) ==
  IF s # <<>> /\ s[Len(s)] = " " THEN TrimRight(SubSeq(s, 1, Len(s) - 1)) ELSE s

Trim(s) == TrimRight(TrimLeft(s))

\* String.prototype.split(/\s+/): a run of whitespace is one separator, and a
\* leading or trailing separator leaves an empty first or last piece
RECURSIVE SplitFrom(_, _, _, _, _)
SplitFrom(s, i, cur, acc, inSpace) ==
  IF i > Len(s) THEN Append(acc, cur)
  ELSE IF s[i] = " "
    THEN IF inSpace THEN SplitFrom(s, i + 1, cur, acc, TRUE)
         ELSE SplitFrom(s, i + 1, <<>>, Append(acc, cur), TRUE)
  ELSE SplitFrom(s, i + 1, Append(cur, s[i]), acc, FALSE)

Split(s) == SplitFrom(s, 1, <<>>, <<>>, FALSE)

\* Array.prototype.join(" ")
RECURSIVE Join(_)
Join(words) ==
  IF words = <<>> THEN <<>>
  ELSE IF Len(words) = 1 THEN words[1]
  ELSE words[1] \o <<" ">> \o Join(Tail(words))

Slice(seq, n) == SubSeq(seq, 1, IF Len(seq) < n THEN Len(seq) ELSE n)

\* a derivation that never shortens the words it keeps
DeriveTitle_NoCut(firstMessageContent) ==
  LET words == Join(Slice(Split(firstMessageContent), TitleWords))
  IN IF words = <<>> THEN ChatTitle ELSE words

\* the title updateSessionTitleIfNeeded derives from the first message
DeriveTitle(firstMessageContent) ==
  LET words == Join(Slice(Split(firstMessageContent), TitleWords))
      newTitle == IF Len(words) > TitleThreshold
                    THEN SubSeq(words, 1, TitleCut) \o Ellipsis
                    ELSE words
  IN IF newTitle = <<>> THEN ChatTitle ELSE newTitle

\* ------------------------------------------------------------ data records
\* ChatSession.settings is <<>> when absent and <<settings>> when present;
\* createdAt is the origin of the session's time and lastModified counts
\* the times the session was given a new Date() since
NewSession(id) ==
  [id |-> id, title |-> NewChatTitle, messages |-> <<>>, settings |-> <<>>,
   createdAt |-> 0, lastModified |-> 0]

\* an update that leaves the time of the last change as it was
Stamp_Forgotten(s) == s

\* lastModified: new Date()
Stamp(s) == [s EXCEPT !.lastModified = @ + 1]

UserMessage(id, content) ==
  [id |-> id, role |-> "user", content |-> content, isError |-> FALSE]

\* the reply text of simulateAIResponse; the random variation names the
\* settings the call was made with
ResponseText(prompt, settings, variation) ==
  (IF variation
     THEN <<"(Using ", settings.model, " at temp ", ToString(settings.temperature), ") ">>
     ELSE <<>>)
  \o <<"Simulated response: ">> \o prompt

AssistantMessage(id, content) ==
  [id |-> id, role |-> "assistant", content |-> content, isError |-> FALSE]

StoppedMessage(id) ==
  [id |-> id, role |-> "assistant", content |-> StoppedText, isError |-> TRUE]

ErrorMessage(id, reason) ==
  [id |-> id, role |-> "assistant", content |-> <<"Error: ", reason>>,
   isError |-> TRUE]

IndicatorMessage(id) ==
  [id |-> id, role |-> "assistant", content |-> RegeneratingText,
   isError |-> TRUE]

\* --------------------------------------------------- session store (pure)
SessionIds(ss) == {ss[i].id : i \in 1..Len(ss)}

FindSession(ss, id) == Find(ss, LAMBDA s : s.id = id)

MessagesOf(ss, id) ==
  LET f == FindSession(ss, id) IN IF f = <<>> THEN <<>> ELSE f[1].messages

\* an append that targets the most recent session instead of the given id
addMessageToActiveSession_Head(ss, message, sessionId) ==
  IF sessionId = None THEN ss
  ELSE [i \in 1..Len(ss) |->
          IF i = 1 THEN Stamp([ss[i] EXCEPT !.messages = Append(@, message)])
          ELSE ss[i]]

\* an append that brings back a session that is no longer in the list
addMessageToActiveSession_Recreate(ss, message, sessionId) ==
  IF sessionId = None THEN ss
  ELSE IF sessionId \notin SessionIds(ss)
    THEN <<[NewSession(sessionId) EXCEPT !.messages = <<message>>]>> \o ss
  ELSE [i \in 1..Len(ss) |->
          IF ss[i].id = sessionId
            THEN Stamp([ss[i] EXCEPT !.messages = Append(@, message)])
            ELSE ss[i]]

\* lines 367-383
addMessageToActiveSession(ss, message, sessionId) ==
  IF sessionId = None THEN ss
  ELSE [i \in 1..Len(ss) |->
          IF ss[i].id = sessionId
            THEN Stamp([ss[i] EXCEPT !.messages = Append(@, message)])
            ELSE ss[i]]

\* a title update that does not look at the present title
updateSessionTitleIfNeeded_Always(ss, sessionId, firstMessageContent) ==
  [i \in 1..Len(ss) |->
     IF ss[i].id = sessionId
       THEN Stamp([ss[i] EXCEPT !.title = DeriveTitle(firstMessageContent)])
       ELSE ss[i]]

\* lines 384-403
updateSessionTitleIfNeeded(ss, sessionId, firstMessageContent) ==
  [i \in 1..Len(ss) |->
     IF ss[i].id = sessionId /\ (ss[i].title = NewChatTitle \/ ss[i].title = <<>>)
       THEN Stamp([ss[i] EXCEPT !.title = DeriveTitle(firstMessageContent)])
       ELSE ss[i]]

\* ------------------------------------------------------ settings resolver
\* a resolver that falls back to the shipped defaults
effectiveChatSettings_ShippedDefaults(session, app) ==
  IF session.settings # <<>> THEN session.settings[1]
  ELSE DEFAULT_CHAT_SETTINGS

\* lines 139-140, for any session in place of the active one
effectiveChatSettings(session, app) ==
  IF session.settings # <<>> THEN session.settings[1]
  ELSE app.defaultChatSettings

\* a lookup that takes the first credential whatever its provider
ResolveApiKey_AnyProvider(settingsToUse, app) ==
  IF app.apiProviders = <<>> THEN "" ELSE app.apiProviders[1].apiKey

\* the apiKey performAICall resolves; "" stands for undefined
ResolveApiKey(settingsToUse, app) ==
  LET providerId == getProviderIdFromModel(settingsToUse.model)
      apiProviderConfig ==
        Find(app.apiProviders, LAMBDA p : p.providerId = providerId)
  IN IF apiProviderConfig = <<>> THEN "" ELSE apiProviderConfig[1].apiKey

\* ------------------------------------------------------------------- state
VARIABLES
  sessions,           \* useState<ChatSession[]>, most recent first
  activeSessionId,    \* useState<string | null>
  isLoading,          \* useState<boolean>
  abortControllerRef, \* useRef<AbortController | null>: id of the controller
  appSettings,        \* useState<AppSettings>
  editingMessageId,   \* useState<string | null>
  confirmModal,       \* the open confirmation and what its onConfirm captured
  newChatClosure,     \* activeSession?.messages.length === 0 as captured by
                      \* the handleNewChat closure (dependency list [isLoading])
  requests,           \* pending simulateAIResponse calls, by controller id
  nextSession,        \* uuidv4() for sessions
  nextMessage,        \* uuidv4() for messages
  calls,              \* history: one record per performAICall invocation
  lastRename,         \* history: what the last save of a title editor did
  edits,              \* number of renames, message deletions, saved edits and
                      \* settings saves so far (a reset of the override is
                      \* not counted)
  tempApiProviders,   \* SettingsModal: tempAppSettings.apiProviders
  tests,              \* testConnection invocations and what each captured
  nextProvider        \* uuidv4() for API provider configurations

appVars ==
  <<sessions, activeSessionId, isLoading, abortControllerRef, appSettings,
    editingMessageId, confirmModal, newChatClosure, requests, nextSession,
    nextMessage, calls, lastRename, edits>>

dialogVars == <<tempApiProviders, tests, nextProvider>>

vars == <<appVars, dialogVars>>

\* the API provider list the settings dialog shows: the stored configuration
StoredProviders ==
  <<[id |-> 1, providerId |-> "openai", name |-> "A", apiKey |-> "valid-key",
     status |-> "unknown", lastTested |-> None]>>

\* the settings dialog before any of its controls is used
InitDialog ==
  /\ tempApiProviders = StoredProviders
  /\ tests = <<>>
  /\ nextProvider = 2

NoRequests == [r \in {} |-> 0]

\* the session list localStorage holds at startup: one finished exchange
\* (with or without an override), or a new chat that was never used
StoredContent == <<"c">>

StoredSessions ==
  { <<[id |-> 1, title |-> StoredContent,
       messages |-> <<UserMessage(1, StoredContent),
                      AssistantMessage(2, ResponseText(StoredContent,
                                                       DEFAULT_CHAT_SETTINGS, FALSE))>>,
       settings |-> o, createdAt |-> 0, lastModified |-> 0]>> :
    o \in {<<>>, <<[model |-> DEFAULT_MODEL_ID, temperature |-> 2]>>} }
  \cup { <<NewSession(1)>> }

\* first render after loadInitialData (lines 151-276): the stored sessions
\* with the stored one active, and the stored settings; the handleNewChat
\* closure is the one of the mount render, which saw no session
Init ==
  /\ sessions \in StoredSessions
  /\ activeSessionId = IF sessions = <<>> THEN None ELSE 1
  /\ isLoading = FALSE
  /\ abortControllerRef = None
  /\ appSettings \in StoredAppSettings
  /\ editingMessageId = None
  /\ confirmModal = <<>>
  /\ newChatClosure = FALSE
  /\ requests = NoRequests
  /\ nextSession = IF sessions = <<>> THEN 1 ELSE 2
  /\ nextMessage = IF sessions = <<>> THEN 1 ELSE 3
  /\ calls = <<>>
  /\ lastRename = <<>>
  /\ edits = 0
  /\ InitDialog

\* ---------------------------------------------------------- derived state
activeSession == FindSession(sessions, activeSessionId)

isUsingDefaultSettings ==
  IF activeSession = <<>> THEN TRUE ELSE activeSession[1].settings = <<>>

ActiveIsEmpty(ss, id) ==
  LET f == FindSession(ss, id)
  IN IF f = <<>> THEN FALSE ELSE Len(f[1].messages) = 0

\* handleNewChat is re-created only by a render in which isLoading changed
RenderNewChatClosure ==
  IF isLoading' # isLoading
    THEN ActiveIsEmpty(sessions', activeSessionId')
    ELSE newChatClosure

\* what the screen offers: the backdrop of the confirmation (ConfirmModal.tsx
\* lines 44-52) covers the page, so the controls used with the pointer are
\* out of reach while it is open.  The modal does not take or trap the
\* keyboard focus: the New Chat button and the composer (send, stop,
\* regenerate) stay usable from the keyboard and carry no such guard.
NoDialog == confirmModal = <<>>

EmptyStateShown ==
  IF activeSession = <<>> THEN TRUE
  ELSE Len(activeSession[1].messages) = 0 /\ ~isLoading

ShowRegenerate(msgs) ==
  /\ msgs # <<>>
  /\ msgs[Len(msgs)].role = "assistant"
  /\ ~msgs[Len(msgs)].isError
  /\ ~isLoading

\* the messages a functional update added to the tail of one session
Delta(before, after, sessionId) ==
  LET b == MessagesOf(before, sessionId)
      a == MessagesOf(after, sessionId)
  IN IF Len(a) > Len(b) THEN SubSeq(a, Len(b) + 1, Len(a)) ELSE <<>>

RemoveRequest(reqs, r) == [x \in DOMAIN reqs \ {r} |-> reqs[x]]

EndCall(cs, r, outcome, by, arg, delta) ==
  [cs EXCEPT ![r].outcome = outcome, ![r].by = by, ![r].arg = arg,
             ![r].terminal = @ \o delta]

\* ----------------------------------------------------------- performAICall
\* the credential the claim speaks of: some configured credential of the
\* provider of the model has an API key
CredentialAvailable(settings, app) ==
  \E p \in Range(app.apiProviders) :
     /\ p.providerId = getProviderIdFromModel(settings.model)
     /\ p.apiKey # ""

\* a resolver that forgets the override of the session
SettingsToUse_DefaultsOnly(sessionForCall, app) == app.defaultChatSettings

\* line 408
SettingsToUse(sessionForCall, app) ==
  IF sessionForCall.settings # <<>> THEN sessionForCall.settings[1]
  ELSE app.defaultChatSettings

\* history: the session of a pending call was renamed or re-configured
NoteChange(cs, reqs, id) ==
  [c \in DOMAIN cs |->
     IF c \in DOMAIN reqs /\ cs[c].sessionId = id
       THEN [cs[c] EXCEPT !.changed = TRUE]
       ELSE cs[c]]

\* lines 405-416: resolve settings and credential, return without a request
\* when the key is missing, else mark loading, install a fresh controller
\* and issue the backend call.  ss is the session list the handler's own
\* updates produce; it is only read for the history record.
performAICall(prompt, sessionForCall, ss) ==
  LET settingsToUse == SettingsToUse(sessionForCall, appSettings)
      apiKey == ResolveApiKey(settingsToUse, appSettings)
      id == Len(calls) + 1
      origin == FindSession(ss, sessionForCall.id)
      effective == IF origin = <<>> THEN settingsToUse
                   ELSE effectiveChatSettings(origin[1], appSettings)
      entry == [sessionId |-> sessionForCall.id,
                effective |-> effective,
                credOK |-> CredentialAvailable(effective, appSettings),
                key |-> ResolveApiKey(effective, appSettings),
                changed |-> FALSE,
                contacted |-> apiKey # "",
                outcome |-> IF apiKey # "" THEN "requesting" ELSE "nocred",
                by |-> "",
                arg |-> None,
                terminal |-> <<>>]
  IN /\ calls' = Append(calls, entry)
     /\ IF apiKey = ""
          THEN UNCHANGED <<isLoading, abortControllerRef, requests>>
          ELSE /\ isLoading' = TRUE
               /\ abortControllerRef' = id
               /\ requests' = [x \in DOMAIN requests \cup {id} |->
                                 IF x = id
                                   THEN [sessionId |-> sessionForCall.id,
                                         prompt |-> prompt,
                                         settings |-> settingsToUse,
                                         apiKey |-> apiKey]
                                   ELSE requests[x]]

\* ------------------------------------------------------- backend outcomes
\* lines 423-427 and 431: the timer fires, the reply is appended to the
\* session with the captured id, loading is cleared and the ref is nulled
BackendResolve(r, variation) ==
  /\ r \in DOMAIN requests
  /\ LET req == requests[r]
         msg == AssistantMessage(nextMessage,
                                 ResponseText(req.prompt, req.settings, variation))
         ss == addMessageToActiveSession(sessions, msg, req.sessionId)
     IN /\ sessions' = ss
        /\ calls' = EndCall(calls, r, "completed", "", None, Delta(sessions, ss, req.sessionId))
  /\ nextMessage' = nextMessage + 1
  /\ isLoading' = FALSE
  /\ abortControllerRef' = None
  /\ requests' = RemoveRequest(requests, r)
  /\ UNCHANGED <<dialogVars, lastRename, activeSessionId, appSettings, editingMessageId,
                 confirmModal, nextSession, edits>>
  /\ newChatClosure' = RenderNewChatClosure

\* lines 430-431: the backend call throws something other than AbortError
BackendReject(r) ==
  /\ r \in DOMAIN requests
  /\ LET req == requests[r]
         msg == ErrorMessage(nextMessage, "backend failure")
         ss == addMessageToActiveSession(sessions, msg, req.sessionId)
     IN /\ sessions' = ss
        /\ calls' = EndCall(calls, r, "failed", "", None, Delta(sessions, ss, req.sessionId))
  /\ nextMessage' = nextMessage + 1
  /\ isLoading' = FALSE
  /\ abortControllerRef' = None
  /\ requests' = RemoveRequest(requests, r)
  /\ UNCHANGED <<dialogVars, lastRename, activeSessionId, appSettings, editingMessageId,
                 confirmModal, nextSession, edits>>
  /\ newChatClosure' = RenderNewChatClosure

\* ------------------------------------------------------------ cancellation
\* a listener that neither clears the timer nor rejects the promise
AbortListener_KeepsPending(reqs, r) == reqs

\* simulateAIResponse lines 73-76: the abort listener clears the timer and
\* rejects the pending promise, so the call leaves the set of pending calls
AbortListener(reqs, r) == RemoveRequest(reqs, r)

\* abortControllerRef.current.abort() followed by the continuation it makes
\* runnable: the catch branch of line 429 appends the stopped message to the
\* session with the captured id (applied after the updates the handler queued,
\* ss), and line 431 nulls the ref without touching isLoading because the
\* signal is aborted.  Sets sessions', requests', abortControllerRef',
\* calls' and nextMessage'.
AbortAndSettle(ss, by, arg) ==
  LET r == abortControllerRef
      req == requests[r]
      after == addMessageToActiveSession(ss, StoppedMessage(nextMessage), req.sessionId)
  IN /\ sessions' = after
     /\ requests' = AbortListener(requests, r)
     /\ abortControllerRef' = None
     /\ calls' = EndCall(calls, r, "cancelled", by, arg, Delta(ss, after, req.sessionId))
     /\ nextMessage' = nextMessage + 1

\* -------------------------------------------------------------- handlers
\* lines 450-453
handleStopGenerating ==
  /\ isLoading /\ abortControllerRef # None
  /\ AbortAndSettle(sessions, "stop", None)
  /\ newChatClosure' = newChatClosure
  /\ UNCHANGED <<dialogVars, lastRename, activeSessionId, isLoading, appSettings, editingMessageId,
                 confirmModal, nextSession, edits>>

\* lines 455-476
handleNewChat ==
  /\ ~newChatClosure
  /\ nextSession <= MaxSessions
  /\ LET newSession == NewSession(nextSession)
         ss == <<newSession>> \o sessions
     IN /\ IF isLoading /\ abortControllerRef # None
             THEN AbortAndSettle(ss, "newchat", newSession.id)
             ELSE /\ sessions' = ss
                  /\ UNCHANGED <<requests, abortControllerRef, calls, nextMessage>>
        /\ activeSessionId' = newSession.id
  /\ nextSession' = nextSession + 1
  /\ editingMessageId' = None
  /\ newChatClosure' = newChatClosure
  /\ UNCHANGED <<dialogVars, lastRename, isLoading, appSettings, confirmModal, edits>>

\* a test that also takes an empty active session for a missing one
NeedsNewSession_WhenEmpty(currentSessionId, ss) ==
  IF currentSessionId = None THEN TRUE ELSE ActiveIsEmpty(ss, currentSessionId)

\* line 490: a session is created only when there is no active session id
NeedsNewSession(currentSessionId, ss) == currentSessionId = None

\* lines 478-520; text is the content of the input box or an example prompt
handleSubmit(text) ==
  /\ IF editingMessageId = None THEN TRUE ELSE EmptyStateShown
  /\ Trim(text) # <<>> /\ ~isLoading
  /\ Len(calls) < MaxCalls /\ nextMessage <= MaxMessages
  /\ activeSessionId = None => nextSession <= MaxSessions
  /\ LET trimmedInput == Trim(text)
         creating == NeedsNewSession(activeSessionId, sessions)
         found == FindSession(sessions, activeSessionId)
         isFirstMessageInSession ==
           IF creating THEN TRUE
           ELSE IF found = <<>> THEN FALSE
           ELSE Len(found[1].messages) = 0
         newSession == NewSession(nextSession)
         currentSessionId == IF creating THEN newSession.id ELSE activeSessionId
         sessionToUse == IF creating THEN <<newSession>> ELSE found
         ss1 == IF creating THEN <<newSession>> \o sessions ELSE sessions
         ss2 == addMessageToActiveSession(
                  ss1, UserMessage(nextMessage, trimmedInput), currentSessionId)
         ss3 == IF isFirstMessageInSession
                  THEN updateSessionTitleIfNeeded(ss2, currentSessionId, trimmedInput)
                  ELSE ss2
     IN /\ sessionToUse # <<>>
        /\ sessions' = ss3
        /\ activeSessionId' = currentSessionId
        /\ nextSession' = IF creating THEN nextSession + 1 ELSE nextSession
        /\ performAICall(trimmedInput, sessionToUse[1], ss3)
  /\ nextMessage' = nextMessage + 1
  /\ UNCHANGED <<dialogVars, lastRename, appSettings, editingMessageId, confirmModal, edits>>
  /\ newChatClosure' = RenderNewChatClosure

\* a lookup that takes the oldest user message
LastUserMessage_Oldest(msgs) ==
  LET us == SelectSeq(msgs, LAMBDA m : m.role = "user")
  IN IF us = <<>> THEN <<>> ELSE <<us[1]>>

\* [...session.messages].reverse().find(m => m.role === 'user')
LastUserMessage(msgs) ==
  LET us == SelectSeq(msgs, LAMBDA m : m.role = "user")
  IN IF us = <<>> THEN <<>> ELSE <<us[Len(us)]>>

\* lines 435-448; the button is rendered on the last message only.  The
\* indicator may take the id that follows a stored list of MaxMessages
\* messages.
handleRegenerate ==
  /\ activeSessionId # None /\ ~isLoading
  /\ activeSession # <<>>
  /\ ShowRegenerate(activeSession[1].messages)
  /\ LastUserMessage(activeSession[1].messages) # <<>>
  /\ Len(calls) < MaxCalls /\ nextMessage <= MaxMessages + 1
  /\ LET session == activeSession[1]
         lastUserMessage == LastUserMessage(session.messages)[1]
         ss == addMessageToActiveSession(
                 sessions, IndicatorMessage(nextMessage), activeSessionId)
     IN /\ sessions' = ss
        /\ performAICall(lastUserMessage.content, session, ss)
  /\ nextMessage' = nextMessage + 1
  /\ UNCHANGED <<dialogVars, lastRename, activeSessionId, appSettings, editingMessageId,
                 confirmModal, nextSession, edits>>
  /\ newChatClosure' = RenderNewChatClosure

\* lines 528-539
handleSelectChat(id) ==
  /\ NoDialog
  /\ id \in SessionIds(sessions)
  /\ IF isLoading /\ abortControllerRef # None
       THEN /\ AbortAndSettle(sessions, "select", id)
            /\ isLoading' = FALSE
       ELSE UNCHANGED <<sessions, requests, abortControllerRef, calls,
                 nextMessage, isLoading>>
  /\ activeSessionId' = id
  /\ editingMessageId' = None
  /\ UNCHANGED <<dialogVars, lastRename, appSettings, confirmModal, nextSession, edits>>
  /\ newChatClosure' = RenderNewChatClosure

\* a delete that does not wait for the answer to the prompt
handleDeleteChat_NoPrompt(id) ==
  /\ NoDialog
  /\ id \in SessionIds(sessions)
  /\ sessions' = SelectSeq(sessions, LAMBDA s : s.id # id)
  /\ activeSessionId' = IF activeSessionId = id THEN None ELSE activeSessionId
  /\ UNCHANGED <<dialogVars, lastRename, isLoading, abortControllerRef, appSettings, editingMessageId,
                 confirmModal, newChatClosure, requests, nextSession,
                 nextMessage, calls, edits>>

\* lines 540-567 up to openConfirmation (lines 338-355): the onConfirm
\* closure keeps the activeSessionId and isLoading of this render
handleDeleteChat(id) ==
  /\ NoDialog
  /\ id \in SessionIds(sessions)
  /\ confirmModal' = <<[id |-> id, activeSessionId |-> activeSessionId,
                        isLoading |-> isLoading]>>
  /\ UNCHANGED <<dialogVars, lastRename, sessions, activeSessionId, isLoading, abortControllerRef,
                 appSettings, editingMessageId, newChatClosure, requests,
                 nextSession, nextMessage, calls, edits>>

\* an onConfirm that removes the session and leaves the selection alone
handleConfirmClick_KeepsSelection ==
  /\ confirmModal # <<>>
  /\ sessions' = SelectSeq(sessions, LAMBDA s : s.id # confirmModal[1].id)
  /\ confirmModal' = <<>>
  /\ UNCHANGED <<dialogVars, lastRename, activeSessionId, isLoading, abortControllerRef,
                 appSettings, editingMessageId, requests, nextSession,
                 nextMessage, calls, edits>>
  /\ newChatClosure' = RenderNewChatClosure

\* ConfirmModal.handleConfirmClick running the onConfirm of lines 545-558
handleConfirmClick ==
  /\ confirmModal # <<>>
  /\ LET c == confirmModal[1]
         updated == SelectSeq(sessions, LAMBDA s : s.id # c.id)
         wasActive == c.activeSessionId = c.id
     IN /\ IF wasActive /\ c.isLoading /\ abortControllerRef # None
             THEN /\ AbortAndSettle(updated, "delete", c.id)
                  /\ isLoading' = FALSE
             ELSE /\ sessions' = updated
                  /\ UNCHANGED <<requests, abortControllerRef, calls, nextMessage, isLoading>>
        /\ activeSessionId' = IF wasActive THEN None ELSE activeSessionId
  /\ confirmModal' = <<>>
  /\ UNCHANGED <<dialogVars, lastRename, appSettings, editingMessageId, nextSession, edits>>
  /\ newChatClosure' = RenderNewChatClosure

\* ConfirmModal.handleCancelClick, and a click on the backdrop
handleCancelClick ==
  /\ confirmModal # <<>>
  /\ confirmModal' = <<>>
  /\ UNCHANGED <<dialogVars, lastRename, sessions, activeSessionId, isLoading, abortControllerRef,
                 appSettings, editingMessageId, newChatClosure, requests,
                 nextSession, nextMessage, calls, edits>>

\* lines 568-587
handleRenameChat(ss, id, newTitle) ==
  [i \in 1..Len(ss) |->
     IF ss[i].id = id
       THEN Stamp([ss[i] EXCEPT !.title =
               IF Trim(newTitle) = <<>> THEN UntitledTitle ELSE Trim(newTitle)])
       ELSE ss[i]]

\* lines 570 and 582-584: the "Chat renamed" notification
RenameToast(ss, id, newTitle) ==
  LET f == FindSession(ss, id)
      oldTitle == IF f = <<>> THEN <<>> ELSE f[1].title
  IN oldTitle # Trim(newTitle)

\* a title editor that hands every non-empty title to onSave
CallsOnSave_AnyTitle(trimmedTitle, initialTitle) == trimmedTitle # <<>>

\* EditableTitle.tsx line 52: the test in front of onSave
CallsOnSave(trimmedTitle, initialTitle) ==
  trimmedTitle # <<>> /\ trimmedTitle # initialTitle

\* EditableTitle.handleSave (EditableTitle.tsx lines 50-55), with the onSave
\* of the sidebar item (handleRenameChat)
EditableTitleSave(id, title) ==
  /\ NoDialog
  /\ edits < MaxEdits
  /\ id \in SessionIds(sessions)
  /\ LET trimmedTitle == Trim(title)
         initialTitle == FindSession(sessions, id)[1].title
         called == CallsOnSave(trimmedTitle, initialTitle)
     IN /\ sessions' = IF called THEN handleRenameChat(sessions, id, trimmedTitle)
                       ELSE sessions
        /\ lastRename' = <<[id |-> id, title |-> trimmedTitle, called |-> called,
                            toast |-> called /\ RenameToast(sessions, id, trimmedTitle)]>>
        /\ calls' = IF called THEN NoteChange(calls, requests, id) ELSE calls
  /\ edits' = edits + 1
  /\ UNCHANGED <<dialogVars, activeSessionId, isLoading, abortControllerRef,
                 appSettings, editingMessageId, confirmModal,
                 newChatClosure, requests, nextSession, nextMessage>>

MessageIds(msgs) == {msgs[i].id : i \in 1..Len(msgs)}

ActiveMessages == IF activeSession = <<>> THEN <<>> ELSE activeSession[1].messages

\* lines 588-604
handleDeleteMessage(messageId) ==
  /\ NoDialog
  /\ edits < MaxEdits
  /\ activeSessionId # None
  /\ messageId \in MessageIds(ActiveMessages)
  /\ editingMessageId # messageId
  /\ sessions' = [i \in 1..Len(sessions) |->
                    IF sessions[i].id = activeSessionId
                      THEN Stamp([sessions[i] EXCEPT !.messages =
                              SelectSeq(@, LAMBDA m : m.id # messageId)])
                      ELSE sessions[i]]
  /\ UNCHANGED <<dialogVars, lastRename, activeSessionId, isLoading, abortControllerRef,
                 appSettings, editingMessageId, confirmModal,
                 newChatClosure, requests, nextSession, nextMessage, calls>>
  /\ edits' = edits + 1

\* lines 605-607; ChatMessage offers the edit button on user messages only
\* (EditableTitle.tsx line 355)
handleEditMessage(messageId) ==
  /\ NoDialog
  /\ editingMessageId # messageId
  /\ \E i \in 1..Len(ActiveMessages) :
        ActiveMessages[i].id = messageId /\ ActiveMessages[i].role = "user"
  /\ editingMessageId' = messageId
  /\ UNCHANGED <<dialogVars, lastRename, sessions, activeSessionId, isLoading, abortControllerRef,
                 appSettings, confirmModal, newChatClosure, requests,
                 nextSession, nextMessage, calls, edits>>

\* lines 608-610
handleCancelEdit ==
  /\ NoDialog
  /\ editingMessageId \in MessageIds(ActiveMessages)
  /\ editingMessageId' = None
  /\ UNCHANGED <<dialogVars, lastRename, sessions, activeSessionId, isLoading, abortControllerRef,
                 appSettings, confirmModal, newChatClosure, requests,
                 nextSession, nextMessage, calls, edits>>

IndexOfMessage(msgs, messageId) ==
  IF messageId \in MessageIds(msgs)
    THEN CHOOSE i \in 1..Len(msgs) :
           /\ msgs[i].id = messageId
           /\ \A j \in 1..(i - 1) : msgs[j].id # messageId
    ELSE 0

\* an updater that asks for a new reply whenever a user message changed,
\* also when nothing follows it
SaveEditUpdate_AlwaysRegenerates(s, messageId, trimmedContent) ==
  LET msgIdx == IndexOfMessage(s.messages, messageId)
      originalMsg == s.messages[msgIdx]
      requiresRegeneration ==
        originalMsg.content # trimmedContent /\ originalMsg.role = "user"
      edited == [i \in 1..Len(s.messages) |->
                   IF s.messages[i].id = messageId
                     THEN [s.messages[i] EXCEPT !.content = trimmedContent]
                     ELSE s.messages[i]]
  IN IF msgIdx = 0
       THEN [session |-> s, found |-> FALSE, requiresRegeneration |-> FALSE]
       ELSE [session |-> Stamp([s EXCEPT !.messages =
                            IF requiresRegeneration THEN SubSeq(edited, 1, msgIdx)
                            ELSE edited]),
             found |-> TRUE,
             requiresRegeneration |-> requiresRegeneration]

\* the updater of lines 615-628 applied to one session: the messages it
\* leaves, and whether it raised requiresRegeneration
SaveEditUpdate(s, messageId, trimmedContent) ==
  LET msgIdx == IndexOfMessage(s.messages, messageId)
      originalMsg == s.messages[msgIdx]
      changedUser == originalMsg.content # trimmedContent /\ originalMsg.role = "user"
      requiresRegeneration == changedUser /\ msgIdx < Len(s.messages)
      edited == [i \in 1..Len(s.messages) |->
                   IF s.messages[i].id = messageId
                     THEN [s.messages[i] EXCEPT !.content = trimmedContent]
                     ELSE s.messages[i]]
      updatedMessages == IF requiresRegeneration THEN SubSeq(edited, 1, msgIdx)
                         ELSE edited
  IN IF msgIdx = 0
       THEN [session |-> s, found |-> FALSE, requiresRegeneration |-> FALSE]
       ELSE [session |-> Stamp([s EXCEPT !.messages = updatedMessages]),
             found |-> TRUE,
             requiresRegeneration |-> requiresRegeneration]

\* lines 611-635.  React runs the updater of setSessions inside the call only
\* when the component has no pending update (eager); otherwise it runs in
\* the next render, after line 631 has read requiresRegeneration.
handleSaveEdit(messageId, newContent, eager) ==
  /\ edits < MaxEdits
  /\ activeSessionId # None
  /\ LET trimmedContent == Trim(newContent)
         upd == IF activeSession = <<>>
                  THEN [session |-> <<>>, found |-> FALSE,
                        requiresRegeneration |-> FALSE]
                  ELSE SaveEditUpdate(activeSession[1], messageId, trimmedContent)
         ss == [i \in 1..Len(sessions) |->
                  IF sessions[i].id = activeSessionId THEN upd.session
                  ELSE sessions[i]]
     IN IF trimmedContent = <<>>
          THEN UNCHANGED <<sessions, editingMessageId, isLoading, abortControllerRef,
                 requests, calls>>
          ELSE /\ sessions' = ss
               /\ editingMessageId' = None
               /\ IF eager /\ upd.requiresRegeneration
                    THEN /\ Len(calls) < MaxCalls
                         /\ performAICall(trimmedContent, upd.session, ss)
                    ELSE UNCHANGED <<isLoading, abortControllerRef, requests, calls>>
  /\ edits' = edits + 1
  /\ UNCHANGED <<dialogVars, lastRename, activeSessionId, appSettings, confirmModal, nextSession,
                 nextMessage>>
  /\ newChatClosure' = RenderNewChatClosure

\* ChatMessage.handleSave (EditableTitle.tsx lines 194-196): the save button
\* of the message that is being edited (App.tsx line 788)
ChatMessageSave(messageId, newContent, eager) ==
  /\ NoDialog
  /\ editingMessageId = messageId
  /\ messageId \in MessageIds(ActiveMessages)
  /\ handleSaveEdit(messageId, newContent, eager)

\* a save that writes the settings into every session
handleSaveChatSettings_Every(ss, chatId, newSettings) ==
  [i \in 1..Len(ss) |-> Stamp([ss[i] EXCEPT !.settings = <<newSettings>>])]

\* lines 637-649
handleSaveChatSettings(ss, chatId, newSettings) ==
  [i \in 1..Len(ss) |->
     IF ss[i].id = chatId THEN Stamp([ss[i] EXCEPT !.settings = <<newSettings>>])
     ELSE ss[i]]

\* lines 650-661
handleResetChatSettings(ss, chatId) ==
  [i \in 1..Len(ss) |->
     IF ss[i].id = chatId THEN Stamp([ss[i] EXCEPT !.settings = <<>>])
     ELSE ss[i]]

\* ChatSettingsModal.handleSaveChanges (ChatSettingsModal.tsx lines 89-106);
\* the dialog is opened from the header of the active session, and its save
\* button is enabled only when the settings shown differ from the effective
\* ones (hasChanges, lines 120 and 219)
ChatSettingsSaveChanges(tempSettings) ==
  /\ NoDialog
  /\ activeSession # <<>>
  /\ edits < MaxEdits
  /\ tempSettings # effectiveChatSettings(activeSession[1], appSettings)
  /\ sessions' =
       IF tempSettings # DEFAULT_CHAT_SETTINGS
         THEN handleSaveChatSettings(sessions, activeSessionId, tempSettings)
       ELSE IF ~isUsingDefaultSettings
         THEN handleResetChatSettings(sessions, activeSessionId)
       ELSE sessions
  /\ edits' = edits + 1
  /\ calls' = IF sessions' # sessions
               THEN NoteChange(calls, requests, activeSessionId)
               ELSE calls
  /\ UNCHANGED <<dialogVars, lastRename, activeSessionId, isLoading, abortControllerRef,
                 appSettings, editingMessageId, confirmModal,
                 newChatClosure, requests, nextSession, nextMessage>>

\* ChatSettingsModal.handleReset (ChatSettingsModal.tsx lines 109-117)
ChatSettingsReset ==
  /\ NoDialog
  /\ activeSession # <<>>
  /\ ~isUsingDefaultSettings
  /\ sessions' = handleResetChatSettings(sessions, activeSessionId)
  /\ calls' = NoteChange(calls, requests, activeSessionId)
  /\ UNCHANGED <<dialogVars, lastRename, activeSessionId, isLoading, abortControllerRef,
                 appSettings, editingMessageId, confirmModal,
                 newChatClosure, requests, nextSession, nextMessage, edits>>

\* lines 662-664, called by SettingsModal.handleSaveChanges
handleAppSettingsChange(newSettings) ==
  /\ NoDialog
  /\ edits < MaxEdits
  /\ newSettings # appSettings
  /\ appSettings' = newSettings
  /\ edits' = edits + 1
  /\ UNCHANGED <<dialogVars, lastRename, sessions, activeSessionId, isLoading, abortControllerRef,
                 editingMessageId, confirmModal, newChatClosure, requests,
                 nextSession, nextMessage, calls>>

\* ------------------------------------------------------------ specification
Next ==
  \/ \E text \in Prompts : handleSubmit(text)
  \/ handleRegenerate
  \/ handleStopGenerating
  \/ handleNewChat
  \/ \E id \in 1..MaxSessions : handleSelectChat(id)
  \/ \E id \in 1..MaxSessions : handleDeleteChat(id)
  \/ handleConfirmClick
  \/ handleCancelClick
  \/ \E id \in 1..MaxSessions, title \in RenameInputs : EditableTitleSave(id, title)
  \/ \E m \in 1..(MaxMessages + MaxCalls) : handleDeleteMessage(m)
  \/ \E m \in 1..(MaxMessages + MaxCalls) : handleEditMessage(m)
  \/ handleCancelEdit
  \/ \E m \in 1..(MaxMessages + MaxCalls), c \in EditInputs, eager \in BOOLEAN :
        ChatMessageSave(m, c, eager)
  \/ \E t \in SettingsChoices : ChatSettingsSaveChanges(t)
  \/ ChatSettingsReset
  \/ \E a \in AppSettingsChoices : handleAppSettingsChange(a)
  \/ \E r \in 1..MaxCalls, v \in Variations : BackendResolve(r, v)
  \/ \E r \in 1..MaxCalls : BackendReject(r)

Spec == Init /\ [][Next]_vars

\* ------------------------------------------------- sessions in localStorage
\* JSON.stringify of one message (line 301): a property whose value is
\* undefined is left out, and isError is set only on flagged messages
StringifyMessage(m) ==
  [id |-> m.id, role |-> m.role, content |-> m.content,
   isError |-> IF m.isError THEN <<TRUE>> ELSE <<>>]

\* JSON.stringify of the session list (line 301); the dates are written as
\* ISO strings, which keep them to the millisecond
Stringify(ss) ==
  [i \in 1..Len(ss) |->
     [id |-> ss[i].id, title |-> ss[i].title,
      messages |-> [k \in 1..Len(ss[i].messages) |->
                      StringifyMessage(ss[i].messages[k])],
      createdAt |-> ss[i].createdAt, lastModified |-> ss[i].lastModified,
      settings |-> ss[i].settings]]

\* the item the save effect leaves under SESSIONS_KEY (lines 299-302): none
\* for an empty list
SaveSessions(ss) == IF Len(ss) > 0 THEN <<Stringify(ss)>> ELSE <<>>

\* a reading of stored messages that flags none of them
ParseMessage_NoFlag(m, k) ==
  [id |-> IF m.id = None THEN nextMessage + k - 1 ELSE m.id,
   role |-> IF m.role = "user" THEN "user" ELSE "assistant",
   content |-> m.content,
   isError |-> FALSE]

\* lines 206-212, for the k-th stored message
ParseMessage(m, k) ==
  [id |-> IF m.id = None THEN nextMessage + k - 1 ELSE m.id,
   role |-> IF m.role = "user" THEN "user" ELSE "assistant",
   content |-> m.content,
   isError |-> IF m.isError = <<>> THEN FALSE ELSE m.isError[1]]

\* lines 216-229
ParseSettings(stored) ==
  IF stored = <<>> THEN <<>>
  ELSE <<[model |-> IF stored[1].model = "" THEN DEFAULT_CHAT_SETTINGS.model
                    ELSE stored[1].model,
          temperature |-> stored[1].temperature]>>

\* lines 199-231: JSON.parse and the mapping of every stored session
ParseSessions(stored) ==
  [i \in 1..Len(stored) |->
     [id |-> IF stored[i].id = None THEN nextSession + i - 1 ELSE stored[i].id,
      title |-> IF stored[i].title = <<>> THEN UntitledTitle ELSE stored[i].title,
      messages |-> [k \in 1..Len(stored[i].messages) |->
                      ParseMessage(stored[i].messages[k], k)],
      settings |-> ParseSettings(stored[i].settings),
      createdAt |-> stored[i].createdAt,
      lastModified |-> stored[i].lastModified]]

\* lines 196-198 and 231: the session list after a start with that item
LoadSessions(item) == IF item = <<>> THEN <<>> ELSE ParseSessions(item[1])

\* ------------------------------ the message handlers on any message list
\* handleSaveEdit is handed to every ChatMessage (App.tsx line 790) and does
\* not look at editingMessageId: here it is called with any message id on
\* any message list a stored session can hold, and handleRegenerate is
\* called on the lists that show its button.
EditContents == {StoredContent, <<"a", " ", "b">>}

MessageChoices(id) ==
  {UserMessage(id, c) : c \in EditContents} \cup
  {AssistantMessage(id, c) : c \in EditContents}

EditMessageLists ==
  UNION {{ms \in [1..n -> UNION {MessageChoices(i) : i \in 1..n}] :
            \A i \in 1..n : ms[i].id = i} : n \in 1..MaxMessages}

InitEdit ==
  /\ \E ms \in EditMessageLists :
        /\ sessions = <<[id |-> 1, title |-> StoredContent, messages |-> ms,
                         settings |-> <<>>, createdAt |-> 0,
                         lastModified |-> 0]>>
        /\ nextMessage = Len(ms) + 1
  /\ activeSessionId = 1
  /\ isLoading = FALSE
  /\ abortControllerRef = None
  /\ appSettings \in StoredAppSettings
  /\ editingMessageId = None
  /\ confirmModal = <<>>
  /\ newChatClosure = FALSE
  /\ requests = NoRequests
  /\ nextSession = 2
  /\ calls = <<>>
  /\ lastRename = <<>>
  /\ edits = 0
  /\ InitDialog

NextEdit ==
  \/ \E m \in 1..(MaxMessages + MaxCalls), c \in EditInputs, eager \in BOOLEAN :
        handleSaveEdit(m, c, eager)
  \/ handleRegenerate
  \/ \E r \in 1..MaxCalls, v \in Variations : BackendResolve(r, v)
  \/ \E r \in 1..MaxCalls : BackendReject(r)

SpecEdit == InitEdit /\ [][NextEdit]_vars

\* ------------------------------------- first messages of many lengths
\* The first message of an unused chat is made of up to TitleWords + 1
\* words of six or seven letters, separated by one or by two blanks.
WordLengths == {6, 7}

Word(n) == [i \in 1..n |-> "x"]

WordLists ==
  UNION {[1..n -> {Word(l) : l \in WordLengths}] : n \in 1..(TitleWords + 1)}

Gaps == {<<" ">>, <<" ", " ">>}

RECURSIVE JoinWith(_, _)
JoinWith(words, gap) ==
  IF Len(words) = 1 THEN words[1]
  ELSE words[1] \o gap \o JoinWith(Tail(words), gap)

TitleInputs == {JoinWith(ws, gap) : ws \in WordLists, gap \in Gaps}

InitTitle ==
  /\ sessions = <<NewSession(1)>>
  /\ activeSessionId = 1
  /\ isLoading = FALSE
  /\ abortControllerRef = None
  /\ appSettings \in StoredAppSettings
  /\ editingMessageId = None
  /\ confirmModal = <<>>
  /\ newChatClosure = FALSE
  /\ requests = NoRequests
  /\ nextSession = 2
  /\ nextMessage = MaxMessages
  /\ calls = <<>>
  /\ lastRename = <<>>
  /\ edits = 0
  /\ InitDialog

NextTitle ==
  \/ \E text \in TitleInputs : handleSubmit(text)
  \/ handleStopGenerating
  \/ \E r \in 1..MaxCalls, v \in Variations : BackendResolve(r, v)
  \/ \E r \in 1..MaxCalls : BackendReject(r)

SpecTitle == InitTitle /\ [][NextTitle]_vars

\* ------------------------------------ API providers tab of SettingsModal
\* what the inline form holds when Save is pressed (no surrounding blanks)
ProviderForms ==
  { [name |-> "A", apiKey |-> "valid-key"],
    [name |-> "B", apiKey |-> "bad-key"],
    [name |-> "", apiKey |-> "bad-key"] }

ProviderIds(providers) == {providers[i].id : i \in 1..Len(providers)}

\* config.apiKey.toLowerCase().includes('valid'), line 329
IncludesValid(apiKey) == apiKey = "valid-key"

\* lines 311-313, the list onChange receives; testedDate None is undefined
updateStatus(providers, id, status, testedDate) ==
  [i \in 1..Len(providers) |->
     IF providers[i].id = id
       THEN [providers[i] EXCEPT
               !.status = status,
               !.lastTested = IF testedDate # None THEN testedDate ELSE @]
       ELSE providers[i]]

\* lines 310-316: the Test button of a row; updateStatus closes over the
\* providers prop of the render the button belongs to
testConnection(id) ==
  /\ Len(tests) < MaxTests
  /\ id \in ProviderIds(tempApiProviders)
  /\ tempApiProviders' = updateStatus(tempApiProviders, id, "testing", None)
  /\ tests' = Append(tests,
                     [config |-> Find(tempApiProviders, LAMBDA p : p.id = id)[1],
                      providers |-> tempApiProviders,
                      settled |-> FALSE])
  /\ UNCHANGED <<appVars, nextProvider>>

\* lines 327-340: after the awaited delay, test t reports through the
\* updateStatus of the render that started it
testConnectionSettles(t) ==
  /\ t \in 1..Len(tests)
  /\ ~tests[t].settled
  /\ LET config == tests[t].config
         status == IF IncludesValid(config.apiKey) THEN "valid" ELSE "invalid"
     IN tempApiProviders' = updateStatus(tests[t].providers, config.id, status, t)
  /\ tests' = [tests EXCEPT ![t].settled = TRUE]
  /\ UNCHANGED <<appVars, nextProvider>>

\* lines 245-258: Save of the inline edit form of provider editingProviderId
ApiProvidersSaveEdit(editingProviderId, providerFormData) ==
  /\ editingProviderId \in ProviderIds(tempApiProviders)
  /\ IF providerFormData.name = "" \/ providerFormData.apiKey = ""
       THEN UNCHANGED tempApiProviders
       ELSE tempApiProviders' =
              [i \in 1..Len(tempApiProviders) |->
                 IF tempApiProviders[i].id = editingProviderId
                   THEN [tempApiProviders[i] EXCEPT
                           !.name = providerFormData.name,
                           !.apiKey = providerFormData.apiKey,
                           !.status = "unknown",
                           !.lastTested = None]
                   ELSE tempApiProviders[i]]
  /\ UNCHANGED <<appVars, tests, nextProvider>>

\* lines 277-293: Save of the add form
ApiProvidersSaveNew(providerFormData) ==
  /\ nextProvider <= MaxProviders
  /\ IF providerFormData.name = "" \/ providerFormData.apiKey = ""
       THEN UNCHANGED <<tempApiProviders, nextProvider>>
       ELSE /\ tempApiProviders' =
                 Append(tempApiProviders,
                        [id |-> nextProvider, providerId |-> "openai",
                         name |-> providerFormData.name,
                         apiKey |-> providerFormData.apiKey,
                         status |-> "unknown", lastTested |-> None])
            /\ nextProvider' = nextProvider + 1
  /\ UNCHANGED <<appVars, tests>>

\* lines 206-224: the Remove button of a row, with the answer to
\* window.confirm
handleDeleteProvider(idToDelete, confirmed) ==
  /\ idToDelete \in ProviderIds(tempApiProviders)
  /\ tempApiProviders' =
       IF confirmed
         THEN SelectSeq(tempApiProviders, LAMBDA p : p.id # idToDelete)
         ELSE tempApiProviders
  /\ UNCHANGED <<appVars, tests, nextProvider>>

NextSettings ==
  \/ \E id \in 1..MaxProviders : testConnection(id)
  \/ \E t \in 1..MaxTests : testConnectionSettles(t)
  \/ \E id \in 1..MaxProviders, f \in ProviderForms : ApiProvidersSaveEdit(id, f)
  \/ \E f \in ProviderForms : ApiProvidersSaveNew(f)
  \/ \E id \in 1..MaxProviders, ok \in BOOLEAN : handleDeleteProvider(id, ok)

\* the dialog opened over an unused chat
InitSettings == Init /\ sessions = <<NewSession(1)>>

SpecSettings == InitSettings /\ [][NextSettings]_vars

\* ------------------------------------------------------------------ claims
Finished(c) == calls[c].outcome \in {"completed", "failed", "cancelled", "nocred"}

IsStopped(m) == m.role = "assistant" /\ m.isError /\ m.content = StoppedText

SessionOf(ss, id) == FindSession(ss, id)[1]

\* C1: at most one generation request is outstanding in every reachable
\* state, whatever the interleaving of send, regenerate, save-edit, stop,
\* select, new-chat, delete and backend events.
C1_AtMostOneOutstanding == Cardinality(DOMAIN requests) <= 1

\* C2: every start of a generation that has reached its outcome (success,
\* cancellation, backend failure or missing credential) has appended exactly
\* one assistant message to the originating session, and a start that has
\* not reached its outcome has appended none.
C2_ExactlyOneTerminal ==
  \A c \in DOMAIN calls :
     IF Finished(c)
       THEN Len(calls[c].terminal) = 1 /\ calls[c].terminal[1].role = "assistant"
       ELSE calls[c].terminal = <<>>

C4_IdleWhenNothingPending ==
  requests = NoRequests => ~isLoading /\ abortControllerRef = None

\* C5: an attempt started while no configured credential with an API key
\* matches the provider of the effective model never contacts the backend
\* and leaves the controller out of Requesting: the step that starts it
\* changes neither the loading flag, the handle nor the pending calls.
C5_NoCredentialNoContact ==
  [][\A c \in DOMAIN calls' :
        ~calls'[c].credOK =>
          /\ ~calls'[c].contacted
          /\ calls'[c].outcome = "nocred"
          /\ c \notin DOMAIN requests'
          /\ (c \notin DOMAIN calls =>
                UNCHANGED <<isLoading, abortControllerRef, requests>>)]_vars

C5_Witness ==
  \E c \in DOMAIN calls :
     ~calls[c].credOK /\ calls[c].outcome = "nocred" /\ ~isLoading

\* C6: the step in which a generation reaches its outcome appends the
\* terminal message to the session with the captured id as that session is
\* in the current state (title and settings as they are now, renames and
\* settings changes made meanwhile included) and stamps its lastModified,
\* and changes no other session that exists before and after the step.
C6_AppendsToCapturedSession ==
  [][\A c \in DOMAIN calls :
        (calls[c].outcome = "requesting" /\ calls'[c].outcome # "requesting") =>
          LET sid == calls[c].sessionId
          IN /\ \A id \in SessionIds(sessions) \cap SessionIds(sessions') :
                  id # sid => SessionOf(sessions', id) = SessionOf(sessions, id)
             /\ sid \in SessionIds(sessions) \cap SessionIds(sessions') =>
                  /\ Len(calls'[c].terminal) = 1
                  /\ SessionOf(sessions', sid) =
                       [SessionOf(sessions, sid) EXCEPT
                          !.messages = Append(@, calls'[c].terminal[1]),
                          !.lastModified = @ + 1]]_vars

C6_Witness ==
  \E c \in DOMAIN calls :
     /\ calls[c].outcome = "completed"
     /\ calls[c].changed
     /\ Len(calls[c].terminal) = 1
     /\ calls[c].sessionId \in SessionIds(sessions)

\* C7: the settings and the credential of a pending request are those that
\* were effective for the originating session when it was started, and no
\* step changes the parameters of a request that stays pending.
C7_ParametersFixedAtStart ==
  [][\A r \in DOMAIN requests' :
        /\ requests'[r].settings = calls'[r].effective
        /\ requests'[r].apiKey = calls'[r].key
        /\ requests'[r].sessionId = calls'[r].sessionId
        /\ (r \in DOMAIN requests => requests'[r] = requests[r])]_vars

C7_Witness ==
  \E r \in DOMAIN requests :
     /\ requests[r].sessionId \in SessionIds(sessions)
     /\ \/ effectiveChatSettings(SessionOf(sessions, requests[r].sessionId),
                                 appSettings) # requests[r].settings
        \/ ResolveApiKey(requests[r].settings, appSettings) # requests[r].apiKey

\* C8: a step that makes another existing session the active one leaves no
\* request pending that is bound to a different session.
C8_SelectCancelsOther ==
  [][(activeSessionId' # activeSessionId
        /\ activeSessionId' \in SessionIds(sessions)) =>
       \A r \in DOMAIN requests' :
          requests'[r].sessionId = activeSessionId']_vars

\* C9: selecting a session never cancels a generation bound to the session
\* being selected.
C9_SelectKeepsOwn ==
  \A c \in DOMAIN calls :
     ~(calls[c].outcome = "cancelled" /\ calls[c].by = "select"
         /\ calls[c].arg = calls[c].sessionId)

\* C10: confirming the deletion of the session that is active removes it,
\* sets the active selection to none and leaves no pending request bound
\* to it.
C10_DeleteActive ==
  [][(confirmModal # <<>> /\ confirmModal' = <<>>
        /\ Len(sessions') < Len(sessions)
        /\ confirmModal[1].id = activeSessionId) =>
       /\ confirmModal[1].id \notin SessionIds(sessions')
       /\ activeSessionId' = None
       /\ \A r \in DOMAIN requests' :
             requests'[r].sessionId # confirmModal[1].id]_vars

\* a step that closes the confirmation and removes a session: the confirm
\* button (the cancel button and the backdrop remove nothing)
ConfirmedDeletion ==
  /\ confirmModal # <<>>
  /\ confirmModal' = <<>>
  /\ SessionIds(sessions') # SessionIds(sessions)

\* C11: confirming the deletion of a session that is not the active one
\* leaves the active selection unchanged and leaves the pending requests
\* pending, whatever happened between opening the confirmation and
\* confirming it.
C11_DeleteOtherKeepsState ==
  [][(ConfirmedDeletion /\ confirmModal[1].id # activeSessionId) =>
       /\ activeSessionId' = activeSessionId
       /\ requests' = requests]_vars

\* C12: a session leaves the list only in the step that confirms the open
\* prompt for that very session; opening the prompt and dismissing it change
\* neither the session list, the active selection nor the pending requests.
C12_RemovedOnlyOnConfirm ==
  [][/\ \A id \in SessionIds(sessions) \ SessionIds(sessions') :
          /\ confirmModal # <<>>
          /\ confirmModal[1].id = id
          /\ confirmModal' = <<>>
     /\ (confirmModal' # confirmModal
           /\ SessionIds(sessions') = SessionIds(sessions)) =>
          UNCHANGED <<sessions, activeSessionId, requests, isLoading,
                      abortControllerRef>>]_vars

C12_Witness ==
  /\ confirmModal # <<>>
  /\ confirmModal[1].id \in SessionIds(sessions)
  /\ confirmModal[1].id = activeSessionId
  /\ \E r \in DOMAIN requests : requests[r].sessionId = confirmModal[1].id

\* a step of send: a fresh user message becomes the last message of a session
SubmitStep ==
  \E i \in 1..Len(sessions') :
     LET ms == sessions'[i].messages
     IN /\ ms # <<>>
        /\ ms[Len(ms)].id = nextMessage
        /\ ms[Len(ms)].role = "user"
        /\ \A j \in 1..Len(sessions) :
              nextMessage \notin MessageIds(sessions[j].messages)

\* C13: send with an active session (empty or not) appends the user message
\* to that same session and creates no session; send creates a session,
\* makes it active and puts the message in it only when there is no active
\* session.
C13_SendReusesActiveSession ==
  [][SubmitStep =>
       LET after == MessagesOf(sessions', activeSessionId')
       IN /\ after # <<>>
          /\ after[Len(after)].id = nextMessage
          /\ IF activeSessionId # None
               THEN /\ activeSessionId' = activeSessionId
                    /\ Len(sessions') = Len(sessions)
                    /\ SessionIds(sessions') = SessionIds(sessions)
                    /\ Len(after) = Len(MessagesOf(sessions, activeSessionId)) + 1
               ELSE /\ Len(sessions') = Len(sessions) + 1
                    /\ activeSessionId' \notin SessionIds(sessions)
                    /\ Len(after) = 1]_vars

\* session 2 was opened empty by New Chat (no session was ever deleted) and
\* then received the message that was sent
C13_Witness ==
  /\ Len(sessions) = 2
  /\ nextSession = 3
  /\ Len(MessagesOf(sessions, 2)) >= 1
  /\ MessagesOf(sessions, 2)[1].role = "user"

\* the message ids a save of an edit can be called with
EditTargets == 1..(MaxMessages + MaxCalls)

\* the edited message as it is before the save
EditedIndex(m) == IndexOfMessage(ActiveMessages, m)

\* C14: saving an edit that changes a user message which is not the last
\* one truncates the session to end at the edited message with the new
\* content, and starts exactly one generation, for the same session, whose
\* prompt is the new trimmed content.
C14_EditTruncatesAndRegenerates ==
  [][\A m \in EditTargets, c \in EditInputs, e \in BOOLEAN :
        (/\ ChatMessageSave(m, c, e)
         /\ Trim(c) # <<>>
         /\ ActiveMessages[EditedIndex(m)].role = "user"
         /\ ActiveMessages[EditedIndex(m)].content # Trim(c)
         /\ EditedIndex(m) < Len(ActiveMessages)) =>
          /\ MessagesOf(sessions', activeSessionId) =
               Append(SubSeq(ActiveMessages, 1, EditedIndex(m) - 1),
                      [ActiveMessages[EditedIndex(m)] EXCEPT !.content = Trim(c)])
          /\ Len(calls') = Len(calls) + 1
          /\ calls'[Len(calls')].sessionId = activeSessionId
          /\ \A r \in DOMAIN requests' \ DOMAIN requests :
                requests'[r].prompt = Trim(c)]_vars

\* C15: saving an edit of the last message of the session, or one whose
\* trimmed content equals the existing content, starts no generation and
\* removes no message.
C15_EditLastOrUnchanged ==
  [][\A m \in EditTargets, c \in EditInputs, e \in BOOLEAN :
        (/\ ChatMessageSave(m, c, e)
         /\ \/ EditedIndex(m) = Len(ActiveMessages)
            \/ ActiveMessages[EditedIndex(m)].content = Trim(c)) =>
          /\ calls' = calls
          /\ requests' = requests
          /\ LET after == MessagesOf(sessions', activeSessionId)
             IN /\ Len(after) = Len(ActiveMessages)
                /\ \A i \in 1..Len(after) : after[i].id = ActiveMessages[i].id]_vars

\* a message was sent and, while its reply is pending, its edit was saved
\* with the text it already has: it is the last message, all three messages
\* are still there and the send is the only generation
C15_Witness ==
  /\ edits = 1
  /\ editingMessageId = None
  /\ Len(calls) = 1
  /\ calls[1].outcome = "requesting"
  /\ Len(sessions) = 1
  /\ sessions[1].title = StoredContent
  /\ sessions[1].settings = <<>>
  /\ sessions[1].lastModified = 2
  /\ Len(sessions[1].messages) = 3
  /\ sessions[1].messages[3].role = "user"

\* C16: saving an edit whose content is empty after trimming deletes the
\* edited message from the active session.
C16_EmptyEditDeletes ==
  [][\A m \in EditTargets, c \in EditInputs, e \in BOOLEAN :
        (ChatMessageSave(m, c, e) /\ Trim(c) = <<>>) =>
          m \notin MessageIds(MessagesOf(sessions', activeSessionId))]_vars

\* C20: renaming a session to a title whose trimmed value equals its current
\* title changes nothing: the session list, lastModified included, stays as
\* it is and no "Chat renamed" notification is shown.
C20_RenameToSameTitle ==
  [][\A id \in 1..MaxSessions, t \in RenameInputs :
        (/\ EditableTitleSave(id, t)
         /\ Trim(t) = SessionOf(sessions, id).title) =>
          /\ sessions' = sessions
          /\ ~lastRename'[1].toast]_vars

\* the title editor of the stored session was saved with the title the
\* session already has
C20_Witness ==
  /\ lastRename # <<>>
  /\ lastRename[1].id \in SessionIds(sessions)
  /\ lastRename[1].title = SessionOf(sessions, lastRename[1].id).title
  /\ ~lastRename[1].called
  /\ SessionOf(sessions, lastRename[1].id).lastModified = 0

\* C17: saving an edit that targets an assistant message changes nothing:
\* the message list of the session (the content of the message included)
\* and the generation state stay as they are.
C17_AssistantEditIsNoOp ==
  [][\A m \in EditTargets, c \in EditInputs, e \in BOOLEAN :
        (/\ handleSaveEdit(m, c, e)
         /\ m \in MessageIds(ActiveMessages)
         /\ ActiveMessages[EditedIndex(m)].role = "assistant") =>
          /\ MessagesOf(sessions', activeSessionId) = ActiveMessages
          /\ requests' = requests
          /\ calls' = calls
          /\ isLoading' = isLoading]_vars

\* C18: for every session the effective settings are its override when it
\* has one and the current global defaults otherwise, and the active session
\* is reported as using defaults exactly when it has no override.  (The
\* computation is an expression over the state: it assigns nothing.)
C18_EffectiveSettings ==
  /\ \A i \in 1..Len(sessions) :
        LET s == sessions[i]
            eff == effectiveChatSettings(s, appSettings)
        IN /\ s.settings # <<>> => eff = s.settings[1]
           /\ s.settings = <<>> => eff = appSettings.defaultChatSettings
  /\ activeSession # <<>> =>
        (isUsingDefaultSettings <=> activeSession[1].settings = <<>>)

\* the user has changed the global defaults; one session has an override
\* that differs from them and another session has none
C18_Witness ==
  /\ appSettings.defaultChatSettings # DEFAULT_CHAT_SETTINGS
  /\ \E i, j \in 1..Len(sessions) :
        /\ sessions[i].settings # <<>>
        /\ sessions[i].settings[1] # appSettings.defaultChatSettings
        /\ sessions[j].settings = <<>>

\* C19: saving session settings that are value-equal to the current global
\* defaults leaves the session without an override.
C19_SaveEqualToDefaults ==
  [][\A t \in SettingsChoices :
        (ChatSettingsSaveChanges(t) /\ t = appSettings.defaultChatSettings) =>
          SessionOf(sessions', activeSessionId).settings = <<>>]_vars

\* C21: a step changes the title of a session only if it is a rename by the
\* user, or the first message is being sent into a session whose title is
\* still the placeholder; a message sent into a session with a title the
\* user has set, and any later message, leaves every title as it is.
C21_AutoTitleOnlyOnPlaceholder ==
  [][\A id \in SessionIds(sessions) \cap SessionIds(sessions') :
        SessionOf(sessions', id).title # SessionOf(sessions, id).title =>
          \/ \E t \in RenameInputs : EditableTitleSave(id, t)
          \/ /\ SessionOf(sessions, id).title \in {NewChatTitle, <<>>}
             /\ SessionOf(sessions, id).messages = <<>>
             /\ Len(SessionOf(sessions', id).messages) = 1
             /\ SessionOf(sessions', id).messages[1].role = "user"]_vars

\* the user renamed the still empty second session, then sent its first
\* message: the title is the one the user set
C21_Witness ==
  /\ lastRename # <<>>
  /\ lastRename[1].called
  /\ lastRename[1].id \in SessionIds(sessions)
  /\ LET s == SessionOf(sessions, lastRename[1].id)
     IN /\ s.title = lastRename[1].title
        /\ s.title # NewChatTitle
        /\ Len(s.messages) = 1
        /\ s.messages[1].role = "user"
        /\ s.lastModified = 2

\* C23: new-chat invoked while the active session exists and has no
\* messages creates no session and leaves the active selection as it is.
C23_NewChatReusesEmptySession ==
  [][(/\ handleNewChat
      /\ activeSession # <<>>
      /\ activeSession[1].messages = <<>>) =>
        /\ SessionIds(sessions') = SessionIds(sessions)
        /\ activeSessionId' = activeSessionId]_vars

C27_DeletedOriginGetsNothing ==
  [][\A c \in DOMAIN calls :
        (/\ calls[c].outcome = "requesting"
         /\ calls'[c].outcome # "requesting"
         /\ \/ calls[c].sessionId \notin SessionIds(sessions)
            \/ calls[c].sessionId \notin SessionIds(sessions')) =>
          /\ calls[c].sessionId \notin SessionIds(sessions')
          /\ calls'[c].terminal = <<>>
          /\ \A id \in SessionIds(sessions') :
                MessagesOf(sessions', id) = MessagesOf(sessions, id)]_vars

\* a reply arrived for a session that had been deleted without its
\* generation being cancelled
C27_Witness ==
  \E c \in DOMAIN calls :
     /\ calls[c].outcome = "completed"
     /\ calls[c].sessionId \notin SessionIds(sessions)
     /\ calls[c].terminal = <<>>

\* the sessions that are in the list before and after a step and differ
ChangedSessions ==
  {id \in SessionIds(sessions) \cap SessionIds(sessions') :
     SessionOf(sessions', id) # SessionOf(sessions, id)}

\* the ids of a session list, in list order, restricted to a set of ids
OrderOf(ss, ids) ==
  SelectSeq([i \in 1..Len(ss) |-> ss[i].id], LAMBDA id : id \in ids)

\* C28: a step changes at most one of the sessions that stay in the list
\* (title, messages, settings override and lastModified of every other one
\* are as before) and keeps the sessions that stay in their order.
C28_OtherSessionsUntouched ==
  [][/\ Cardinality(ChangedSessions) <= 1
     /\ OrderOf(sessions', SessionIds(sessions)) =
          OrderOf(sessions, SessionIds(sessions'))]_vars

\* the second session was renamed while the stored session, which is still
\* as it was loaded, was in the list
C28_Witness ==
  /\ Len(sessions) = 2
  /\ lastRename # <<>>
  /\ lastRename[1].called
  /\ lastRename[1].id = 2
  /\ SessionOf(sessions, 2).title = lastRename[1].title
  /\ 1 \in SessionIds(sessions)
  /\ SessionOf(sessions, 1).lastModified = 0

\* the content of the user message that no user message follows
MostRecentUserContent(msgs) ==
  {msgs[i].content : i \in {k \in 1..Len(msgs) :
      /\ msgs[k].role = "user"
      /\ \A j \in (k + 1)..Len(msgs) : msgs[j].role # "user"}}

\* C29: a regenerate step happens only when nothing is loading and the
\* active session has a user message; it appends one indicator message
\* (assistant, isError) to the active session, removes nothing, and starts
\* exactly one generation, for that session, whose prompt is the content of
\* the most recent user message.
C29_RegenerateStep ==
  [][handleRegenerate =>
       /\ ~isLoading
       /\ MostRecentUserContent(ActiveMessages) # {}
       /\ Len(MessagesOf(sessions', activeSessionId)) = Len(ActiveMessages) + 1
       /\ SubSeq(MessagesOf(sessions', activeSessionId), 1, Len(ActiveMessages)) =
            ActiveMessages
       /\ LET m == MessagesOf(sessions', activeSessionId)[Len(ActiveMessages) + 1]
          IN m.role = "assistant" /\ m.isError /\ m.content = RegeneratingText
       /\ Len(calls') = Len(calls) + 1
       /\ calls'[Len(calls')].sessionId = activeSessionId
       /\ Cardinality(DOMAIN requests' \ DOMAIN requests) <= 1
       /\ \A r \in DOMAIN requests' \ DOMAIN requests :
             requests'[r].prompt \in MostRecentUserContent(ActiveMessages)]_vars

\* regenerate was used on a list with two user messages of different
\* content: the pending request carries the content of the second
C29_Witness ==
  /\ Len(ActiveMessages) = 4
  /\ ActiveMessages[1].role = "user"
  /\ ActiveMessages[2].role = "user"
  /\ ActiveMessages[1].content # ActiveMessages[2].content
  /\ ActiveMessages[3].role = "assistant"
  /\ ActiveMessages[4].content = RegeneratingText
  /\ \E r \in DOMAIN requests : requests[r].prompt = ActiveMessages[2].content

\* C25: a step that changes the title, the messages or the settings
\* override of a session gives it a new lastModified, which is not earlier
\* than the one it had; no step moves lastModified back and no step changes
\* createdAt.
C25_Timestamps ==
  [][\A id \in SessionIds(sessions) \cap SessionIds(sessions') :
        LET old == SessionOf(sessions, id)
            new == SessionOf(sessions', id)
        IN /\ new.createdAt = old.createdAt
           /\ new.lastModified >= old.lastModified
           /\ (\/ new.title # old.title
               \/ new.messages # old.messages
               \/ new.settings # old.settings) =>
                new.lastModified > old.lastModified]_vars

\* a message of the stored exchange was deleted: the session has been
\* stamped once and its createdAt is the loaded one
C25_Witness ==
  \E i \in 1..Len(sessions) :
     /\ sessions[i].id = 1
     /\ sessions[i].title = StoredContent
     /\ Len(sessions[i].messages) = 1
     /\ edits = 1
     /\ sessions[i].lastModified = 1
     /\ sessions[i].createdAt = 0

\* the first five words of a word list, joined by single blanks
FirstFiveJoined(ws) ==
  JoinWith(SubSeq(ws, 1, IF Len(ws) < 5 THEN Len(ws) ELSE 5), <<" ">>)

\* the step that sends the words ws, separated by gap, as the first message
\* of the unused chat
SendsFirst(ws, gap) ==
  /\ MessagesOf(sessions, 1) = <<>>
  /\ Len(MessagesOf(sessions', 1)) = 1
  /\ MessagesOf(sessions', 1)[1].content = JoinWith(ws, gap)

ProviderOf(providers, id) == Find(providers, LAMBDA p : p.id = id)

\* two lists hold the same configurations in the same order, except that
\* the status and lastTested of the configuration id may differ
SameButTested(before, after, id) ==
  /\ Len(after) = Len(before)
  /\ \A i \in 1..Len(before) :
       IF before[i].id = id
         THEN after[i] = [before[i] EXCEPT !.status = after[i].status,
                                           !.lastTested = after[i].lastTested]
         ELSE after[i] = before[i]

\* C30: a connectivity test changes only the status and the last-tested
\* time of the credential it tests: when it starts and when it reports, the
\* list of the dialog keeps every other credential as it is, with the
\* additions, edits and removals made while the test ran.
C30_TestChangesOnlyTested ==
  [][/\ \A id \in 1..MaxProviders :
          testConnection(id) => SameButTested(tempApiProviders, tempApiProviders', id)
     /\ \A t \in 1..MaxTests :
          testConnectionSettles(t) =>
            SameButTested(tempApiProviders, tempApiProviders', tests[t].config.id)]_vars

\* the part of a message the round trip is about
MessageCore(m) ==
  [id |-> m.id, role |-> m.role, content |-> m.content, isError |-> m.isError]

\* C22: saving the session list and loading it again gives, session by
\* session, the same id, the same messages in the same order with the same
\* ids, roles, content and error flags, and the same settings override
\* (none stays none, one that is present has equal values).
C22_RoundTrip ==
  LET loaded == LoadSessions(SaveSessions(sessions))
  IN /\ Len(loaded) = Len(sessions)
     /\ \A i \in 1..Len(sessions) :
          /\ loaded[i].id = sessions[i].id
          /\ Len(loaded[i].messages) = Len(sessions[i].messages)
          /\ \A k \in 1..Len(sessions[i].messages) :
               MessageCore(loaded[i].messages[k]) = MessageCore(sessions[i].messages[k])
          /\ loaded[i].settings = sessions[i].settings

\* two sessions are saved, one with an override and one without, one of
\* them holding a flagged message after an unflagged one
C22_Witness ==
  /\ Len(sessions) = 2
  /\ \E i \in 1..2 : sessions[i].settings # <<>>
  /\ \E i \in 1..2 : sessions[i].settings = <<>>
  /\ \E i \in 1..2 : \E k \in 2..Len(sessions[i].messages) :
       sessions[i].messages[k].isError /\ ~sessions[i].messages[1].isError

====
